---- MODULE Spec2Model ----
(***************************************************************************)
(* A model of the lazy-tensor IR core: Shape (shape.cpp), the symbolic     *)
(* shape flag, applySymbolicShapesOnLT, and Node / Output / Value (ir.h).  *)
(*                                                                         *)
(* Conventions.  A c10::optional<T> is a sequence of length 0 (nullopt) or *)
(* 1 (the value).  A pointer is a natural number, 0 being nullptr; a Node* *)
(* is the node's position in the heap `nodes`.  A hash_t is a sequence of  *)
(* integers that spells the expression which produced it, so that two      *)
(* hashes are equal exactly when they were computed from the same data by  *)
(* the same calls (the primitives of hash.h are taken to be free of        *)
(* collisions).  Scalar types and operator symbols are their enum /        *)
(* interned integer values.                                                *)
(***************************************************************************)
EXTENDS Integers, Sequences, FiniteSets, TLC

VARIABLES
    a, b, call, sym,                       \* Shape objects under test
    env, FLAGS_ltc_enable_symbolic_shapes, enabled, reads,
    result_shapes, applied,                \* applySymbolicShapesOnLT
    nodes, built,                          \* the heap of Node objects
    dynEnv, FLAGS_ltc_enable_dynamic_shapes, dynEnabled, hashRead,
    metaLog,                               \* SetUserMetadata calls
    value, outs, conv                      \* Value and Output objects

vars == <<a, b, call, sym, env, FLAGS_ltc_enable_symbolic_shapes, enabled,
          reads, result_shapes, applied, nodes, built, dynEnv,
          FLAGS_ltc_enable_dynamic_shapes, dynEnabled, hashRead, metaLog,
          value, outs, conv>>

shapeVars == <<a, b, call, sym>>
flagVars == <<env, FLAGS_ltc_enable_symbolic_shapes, enabled, reads>>
applyVars == <<result_shapes, applied>>
heapVars == <<nodes, built>>
dynVars == <<dynEnv, FLAGS_ltc_enable_dynamic_shapes, dynEnabled, hashRead>>
metaVars == <<metaLog>>
outVars == <<value, outs, conv>>

----------------------------------------------------------------------------
(* Bounds and input domains *)

MaxRank == 2        \* longest size vector / symbolic-dims vector of a Shape
MaxReads == 3       \* reads of the symbolic-shape flag that are recorded
MaxResults == 2     \* result shapes of one applySymbolicShapesOnLT call
MaxSymRank == 1     \* rank of the result shapes and inference entries
MaxHeap == 2        \* nodes in the heap (single-node construction)
MaxPairs == 3       \* pairs of nodes built side by side
MaxCalls == 2       \* recorded SetUserMetadata calls
MaxOutputs == 2     \* Output objects held at once

None == << >>
Some(x) == <<x>>

\* at::ScalarType values: Long and Float
ScalarTypes == {4, 6}
DimSizes == {2, 3}

RECURSIVE SeqsUpTo(_, _)
SeqsUpTo(S, n) ==
    IF n = 0 THEN {<< >>}
    ELSE LET shorter == SeqsUpTo(S, n - 1)
         IN shorter \cup {Append(s, x) : s \in {t \in shorter : Len(t) = n - 1}, x \in S}

SizeVectors == SeqsUpTo(DimSizes, MaxRank)
SymbolicDimsArgs == {None} \cup {Some(v) : v \in SeqsUpTo(BOOLEAN, MaxRank)}

----------------------------------------------------------------------------
(* Shape: shape.cpp *)

Shape(scalar_type, sizes) ==
    [scalar_type |-> scalar_type, sizes |-> sizes, is_symbolic |-> None]

ShapeEqWithSymbolic(s, other) ==
    /\ s.scalar_type = other.scalar_type
    /\ s.sizes = other.sizes
    /\ s.is_symbolic = other.is_symbolic

ShapeEq(s, other) ==
    s.scalar_type = other.scalar_type /\ s.sizes = other.sizes

\* The method's effect on the receiver (self) and the value it returns (ret).
with_symbolic_dims_in_place(self, symbolic_dims) ==
    LET changed == [self EXCEPT !.is_symbolic = symbolic_dims]
    IN [self |-> changed, ret |-> changed]

with_symbolic_dims(self, symbolic_dims) ==
    LET copy == [self EXCEPT !.is_symbolic = symbolic_dims]
    IN [self |-> self, ret |-> copy]

\* A tensor argument: an LTC tensor carries the Shape of its IR value, any
\* other tensor only its sizes.
Tensor(isLtc, shape) == [ltc |-> isLtc, shape |-> shape]

ConcreteDims(sizes) == [i \in 1..Len(sizes) |-> Some(sizes[i])]

get_symbolic_shape(tensor) ==
    IF ~tensor.ltc
    THEN [status |-> "ok", ranked |-> TRUE, dims |-> ConcreteDims(tensor.shape.sizes)]
    ELSE LET input_shape == tensor.shape
             is_symbolic == input_shape.is_symbolic
             sizes == input_shape.sizes
         IN IF is_symbolic = None
            THEN [status |-> "ok", ranked |-> FALSE, dims |-> << >>]
            ELSE IF Len(sizes) # Len(is_symbolic[1])
            THEN [status |-> "assert", ranked |-> FALSE, dims |-> << >>]
            ELSE [status |-> "ok", ranked |-> TRUE,
                  dims |-> [i \in 1..Len(sizes) |->
                              IF is_symbolic[1][i] THEN None ELSE Some(sizes[i])]]

NoCall == [op |-> "none", arg |-> None, recv |-> None]

exceptShape == <<flagVars, applyVars, heapVars, dynVars, metaVars, outVars>>

ShapeStart == a = None /\ b = None /\ call = NoCall /\ sym = None

ShapeCtor(scalar_type, sizes) ==
    /\ a' = Some(Shape(scalar_type, sizes))
    /\ b' = None
    /\ call' = NoCall
    /\ sym' = None
    /\ UNCHANGED exceptShape

ShapeCtorOther(scalar_type, sizes) ==
    /\ a # None
    /\ b' = Some(Shape(scalar_type, sizes))
    /\ call' = [op |-> "ctor", arg |-> None, recv |-> a]
    /\ UNCHANGED <<a, sym>>
    /\ UNCHANGED exceptShape

WithSymbolicDims(symbolic_dims) ==
    /\ a # None
    /\ LET r == with_symbolic_dims(a[1], symbolic_dims)
       IN /\ a' = Some(r.self)
          /\ b' = Some(r.ret)
    /\ call' = [op |-> "with_symbolic_dims", arg |-> symbolic_dims, recv |-> a]
    /\ sym' = None
    /\ UNCHANGED exceptShape

\* s = s.with_symbolic_dims(d): the returned copy replaces the receiver.
Rebind ==
    /\ b # None
    /\ a' = b
    /\ b' = None
    /\ call' = NoCall
    /\ sym' = None
    /\ UNCHANGED exceptShape

GetSymbolicShape(isLtc) ==
    /\ a # None
    /\ sym' = Some(get_symbolic_shape(Tensor(isLtc, a[1])))
    /\ UNCHANGED <<a, b, call>>
    /\ UNCHANGED exceptShape

NextShape ==
    \/ \E t \in ScalarTypes, s \in SizeVectors : ShapeCtor(t, s)
    \/ \E t \in ScalarTypes, s \in SizeVectors : ShapeCtorOther(t, s)
    \/ \E d \in SymbolicDimsArgs : WithSymbolicDims(d)
    \/ Rebind
    \/ \E l \in BOOLEAN : GetSymbolicShape(l)

----------------------------------------------------------------------------
(* The symbolic-shape flag: shape.cpp *)

\* `enabled` is the function-local static (None until its initialiser has
\* run), `envSet` whether getenv finds LTC_ENABLE_SYMBOLIC_SHAPES, `flag` the
\* current value of FLAGS_ltc_enable_symbolic_shapes.
symbolicShapeEnabled_uncached(cache, envSet, flag) ==
    [enabled |-> Some(envSet), ret |-> envSet \/ flag]

symbolicShapeEnabled(cache, envSet, flag) ==
    LET after == IF cache = None THEN Some(envSet) ELSE cache
    IN [enabled |-> after, ret |-> after[1] \/ flag]

exceptFlag == <<shapeVars, applyVars, heapVars, dynVars, metaVars, outVars>>

FlagStart ==
    /\ env \in BOOLEAN
    /\ FLAGS_ltc_enable_symbolic_shapes = FALSE
    /\ enabled = None
    /\ reads = << >>

FlagOff ==
    /\ env = FALSE
    /\ FLAGS_ltc_enable_symbolic_shapes = FALSE
    /\ enabled = None
    /\ reads = << >>

SetEnv(v) ==
    /\ env' = v
    /\ UNCHANGED <<FLAGS_ltc_enable_symbolic_shapes, enabled, reads>>
    /\ UNCHANGED exceptFlag

SetFlag(v) ==
    /\ FLAGS_ltc_enable_symbolic_shapes' = v
    /\ UNCHANGED <<env, enabled, reads>>
    /\ UNCHANGED exceptFlag

ReadSymbolicShapeEnabled ==
    /\ Len(reads) < MaxReads
    /\ LET r == symbolicShapeEnabled(enabled, env, FLAGS_ltc_enable_symbolic_shapes)
       IN /\ enabled' = r.enabled
          /\ reads' = Append(reads, [ret |-> r.ret, env |-> env,
                                     flag |-> FLAGS_ltc_enable_symbolic_shapes])
    /\ UNCHANGED <<env, FLAGS_ltc_enable_symbolic_shapes>>
    /\ UNCHANGED exceptFlag

NextFlag ==
    \/ \E v \in BOOLEAN : SetEnv(v)
    \/ \E v \in BOOLEAN : SetFlag(v)
    \/ ReadSymbolicShapeEnabled

----------------------------------------------------------------------------
(* applySymbolicShapesOnLT: shape.cpp *)

\* An argument (c10::IValue) is a tensor, a list of tensors or anything else.
TensorArg(t) == [kind |-> "tensor", tensors |-> <<t>>]
TensorListArg(ts) == [kind |-> "tensorlist", tensors |-> ts]
OtherArg == [kind |-> "other", tensors |-> << >>]

\* The loop over args: every tensor goes through get_symbolic_shape, whose
\* assertion ends the call.
ArgsConvert(args) ==
    \A i \in 1..Len(args) : \A j \in 1..Len(args[i].tensors) :
        get_symbolic_shape(args[i].tensors[j]).status = "ok"

\* The loop of the branch taken when res_symbolic holds no value: its bound
\* res_symbolic->size() reads an empty optional, so it is whatever the build
\* finds there: `garbage` is -1 when the checked operator-> stops the
\* program, and otherwise the number read.
ClearFirst(shapes, n) ==
    [i \in 1..Len(shapes) |->
        IF i <= n THEN with_symbolic_dims(shapes[i], None).ret ELSE shapes[i]]

ApplyEntries(shapes, entries) ==
    [i \in 1..Len(shapes) |->
        IF entries[i] # None
        THEN with_symbolic_dims(shapes[i], entries[i]).ret
        ELSE shapes[i]]

ApplyEntriesUnchecked(shapes, entries) ==
    [i \in 1..Len(shapes) |->
        IF i <= Len(entries) /\ entries[i] # None
        THEN with_symbolic_dims(shapes[i], entries[i]).ret
        ELSE shapes[i]]

\* res_symbolic is the optional vector calculateSymbolicShapesOnOp returns,
\* each entry given by its symbolicDims().
applySymbolicShapes_no_assert(args, shapes, res_symbolic, garbage) ==
    IF ~ArgsConvert(args)
    THEN [status |-> "assert", inferred |-> FALSE, result_shapes |-> shapes]
    ELSE IF res_symbolic = None
    THEN [status |-> "ok", inferred |-> TRUE, result_shapes |-> shapes]
    ELSE [status |-> "ok", inferred |-> TRUE,
          result_shapes |-> ApplyEntriesUnchecked(shapes, res_symbolic[1])]

applySymbolicShapesOnLT(args, shapes, res_symbolic, garbage) ==
    IF ~ArgsConvert(args)
    THEN [status |-> "assert", inferred |-> FALSE, result_shapes |-> shapes]
    ELSE IF res_symbolic = None
    THEN IF garbage < 0
         THEN [status |-> "abort", inferred |-> TRUE, result_shapes |-> shapes]
         ELSE IF garbage > Len(shapes)
         THEN [status |-> "fault", inferred |-> TRUE,
               result_shapes |-> ClearFirst(shapes, Len(shapes))]
         ELSE [status |-> "ok", inferred |-> TRUE,
               result_shapes |-> ClearFirst(shapes, garbage)]
    ELSE IF Len(res_symbolic[1]) # Len(shapes)
    THEN [status |-> "assert", inferred |-> TRUE, result_shapes |-> shapes]
    ELSE [status |-> "ok", inferred |-> TRUE,
          result_shapes |-> ApplyEntries(shapes, res_symbolic[1])]

\* Result shapes as a caller hands them in: of rank up to MaxSymRank, with or
\* without symbolic-dims metadata from an earlier pass.
ResultShapeSamples ==
    LET plain == {Shape(6, s) : s \in SeqsUpTo({2}, MaxSymRank)}
    IN plain \cup {with_symbolic_dims(s, Some([i \in 1..Len(s.sizes) |-> FALSE])).ret :
                     s \in plain}

InferenceEntries == {None} \cup {Some(v) : v \in SeqsUpTo(BOOLEAN, MaxSymRank)}
InferenceResults == {None} \cup {Some(r) : r \in SeqsUpTo(InferenceEntries, MaxResults)}
GarbageSizes == (-1)..(MaxResults + 1)

ArgLists ==
    LET good == with_symbolic_dims(Shape(6, <<2>>), Some(<<TRUE>>)).ret
        bad == with_symbolic_dims(Shape(6, <<2>>), Some(<<TRUE, FALSE>>)).ret
    IN { << >>,
         <<OtherArg, TensorArg(Tensor(TRUE, good))>>,
         <<TensorListArg(<<Tensor(FALSE, Shape(4, <<3>>)), Tensor(TRUE, Shape(6, << >>))>>)>>,
         <<TensorArg(Tensor(TRUE, bad))>> }

NoApply == [status |-> "none", inferred |-> FALSE, res |-> None, before |-> << >>]

exceptApply == <<shapeVars, flagVars, heapVars, dynVars, metaVars, outVars>>

ApplyStart == result_shapes = << >> /\ applied = NoApply

\* The caller builds the vector of result shapes.
SetupResultShapes(shapes) ==
    /\ applied.status = "none"
    /\ result_shapes = << >>
    /\ result_shapes' = shapes
    /\ applied' = NoApply
    /\ UNCHANGED exceptApply

\* The caller is done with the vector.
ReleaseResultShapes ==
    /\ applied.status # "none"
    /\ result_shapes' = << >>
    /\ applied' = NoApply
    /\ UNCHANGED exceptApply

ApplySymbolicShapesOnLT(args, res_symbolic, garbage) ==
    /\ applied.status = "none"
    /\ LET r == applySymbolicShapesOnLT(args, result_shapes, res_symbolic, garbage)
       IN /\ result_shapes' = r.result_shapes
          /\ applied' = [status |-> r.status, inferred |-> r.inferred,
                         res |-> IF r.inferred THEN Some(res_symbolic) ELSE None,
                         before |-> result_shapes]
    /\ UNCHANGED exceptApply

NextApply ==
    \/ \E shapes \in SeqsUpTo(ResultShapeSamples, MaxResults) : SetupResultShapes(shapes)
    \/ ReleaseResultShapes
    \/ \E args \in ArgLists, res \in InferenceResults \ {None} :
          ApplySymbolicShapesOnLT(args, res, 0)
    \/ \E args \in ArgLists, g \in GarbageSizes :
          ApplySymbolicShapesOnLT(args, None, g)

----------------------------------------------------------------------------
(* Hashing (hash.h) and the dynamic-shape flag *)

Hash(v) == <<1, v>>
DataHash(data) == <<2, Len(data)>> \o data
HashCombine(x, y) == <<3, Len(x)>> \o x \o y
StdHashCombine(x, y) == <<4, x, y>>

\* kHashSeed(static_cast<uint32_t>(0x5a2d296e9))
kHashSeed == <<0>>

ShapeHashAlwaysSizes(shape, bakeInSizes) ==
    HashCombine(Hash(shape.scalar_type), DataHash(shape.sizes))

ShapeHash(shape, bakeInSizes) ==
    IF bakeInSizes
    THEN HashCombine(Hash(shape.scalar_type), DataHash(shape.sizes))
    ELSE HashCombine(Hash(shape.scalar_type), Hash(Len(shape.sizes)))

\* Node::enableDynamicShape(): LTC_ENABLE_DYNAMIC_SHAPES in the environment,
\* looked up once, or FLAGS_ltc_enable_dynamic_shapes.
enableDynamicShape(cache, envSet, flag) ==
    LET after == IF cache = None THEN Some(envSet) ELSE cache
    IN [enabled |-> after, ret |-> after[1] \/ flag]

----------------------------------------------------------------------------
(* OpKind, Output, Value, Node: ir.h *)

OpKind(symbol) == [op |-> symbol]
OpKindHash(kind) == <<5, kind.op>>
\* interned symbols of two operators
OpKinds == {OpKind(10), OpKind(11)}

Output(node, index) == [node |-> node, index |-> index]
Value(node, index) == [node |-> node, index |-> index]

\* Equality by what the nodes hash to instead of by which nodes they are.
OutputEqByHash(lhs, rhs) ==
    /\ nodes[lhs.node].dag_hash_with_sizes = nodes[rhs.node].dag_hash_with_sizes
    /\ lhs.index = rhs.index

OutputEq(lhs, rhs) == lhs.node = rhs.node /\ lhs.index = rhs.index

OutputHasher(output) == StdHashCombine(output.node, output.index)

ValueAsOutput(v) == Output(v.node, v.index)

ValueHashWithSizes(heap, v) == heap[v.node].dag_hash_with_sizes
ValueHashWithoutSizes(heap, v) == heap[v.node].dag_hash_without_sizes

RECURSIVE OperandHashesFrom(_, _, _, _, _)
OperandHashesFrom(heap, operands, hash, bakeInSizes, i) ==
    IF i > Len(operands) THEN hash
    ELSE LET operand_hash == IF bakeInSizes
                             THEN ValueHashWithSizes(heap, operands[i])
                             ELSE ValueHashWithoutSizes(heap, operands[i])
         IN OperandHashesFrom(heap, operands, HashCombine(hash, operand_hash),
                              bakeInSizes, i + 1)

OperandHashes(heap, operands, seed, bakeInSizes) ==
    OperandHashesFrom(heap, operands, seed, bakeInSizes, 1)

GetOpHash(op, shape, hash_seed, bakeInSizes) ==
    HashCombine(HashCombine(OpKindHash(op), ShapeHash(shape, bakeInSizes)), hash_seed)

\* Node(op, num_outputs, node_hash, dag_hash_fn), the dag_hash_fn given by
\* its two values.
NodeOfHashes(op, num_outputs, node_hash, dag_without, dag_with) ==
    [op |-> op, num_outputs |-> num_outputs, node_hash |-> node_hash,
     dag_hash_without_sizes |-> dag_without, dag_hash_with_sizes |-> dag_with,
     user_metadata |-> 0, shapes |-> << >>, operands |-> << >>]

\* Node(op, shape, num_outputs, hash_seed): a leaf, hashed by GetOpHash.
\* `dynamic` is what enableDynamicShape() returns during construction; the
\* node's own hash is the variant that hash() would select.
NodeOfShape(op, shape, num_outputs, hash_seed, dynamic) ==
    [NodeOfHashes(op, num_outputs,
                  GetOpHash(op, shape, hash_seed, ~dynamic),
                  GetOpHash(op, shape, hash_seed, FALSE),
                  GetOpHash(op, shape, hash_seed, TRUE))
     EXCEPT !.shapes = <<shape>>]

\* Node(op, operands, shapes, num_outputs, hash_seed); the constructor
\* without shapes passes none.  The node's own hash holds no shape
\* information (ir.h, the comment on the first constructor), and the hash of
\* the graph folds the operands' hashes over it.
NodeOfOperands(heap, op, operands, shapes, num_outputs, hash_seed) ==
    LET node_hash == HashCombine(OpKindHash(op), hash_seed)
    IN [NodeOfHashes(op, num_outputs, node_hash,
                     OperandHashes(heap, operands, node_hash, FALSE),
                     OperandHashes(heap, operands, node_hash, TRUE))
        EXCEPT !.shapes = shapes,
               !.operands = [i \in 1..Len(operands) |-> ValueAsOutput(operands[i])]]

NodeHashSwapped(node, dynamic) ==
    IF dynamic THEN node.dag_hash_with_sizes ELSE node.dag_hash_without_sizes

\* Node::hash(), `dynamic` being what enableDynamicShape() returns
NodeHash(node, dynamic) ==
    IF dynamic THEN node.dag_hash_without_sizes ELSE node.dag_hash_with_sizes

HashWithoutSizes(node) == node.dag_hash_without_sizes
HashWithSizes(node) == node.dag_hash_with_sizes
UserMetadata(node) == node.user_metadata

SetUserMetadataKeepsOld(node, user_meta) ==
    [node |-> node, ret |-> user_meta]

\* std::swap(user_metadata_, user_meta); return user_meta;
SetUserMetadata(node, user_meta) ==
    [node |-> [node EXCEPT !.user_metadata = user_meta], ret |-> node.user_metadata]

----------------------------------------------------------------------------
(* Building nodes *)

LeafShapes == {Shape(6, <<2>>), Shape(6, <<2, 3>>)}
DeclaredShapes == {<< >>, <<Shape(6, <<2>>)>>}
UserMetaObjects == {1, 2}

HeapStart == nodes = << >> /\ built = << >>

DynStart ==
    /\ dynEnv \in BOOLEAN
    /\ FLAGS_ltc_enable_dynamic_shapes = FALSE
    /\ dynEnabled = None
    /\ hashRead = None

DynOff ==
    /\ dynEnv = FALSE
    /\ FLAGS_ltc_enable_dynamic_shapes = FALSE
    /\ dynEnabled = None
    /\ hashRead = None

MetaStart == metaLog = << >>
OutStart == value = None /\ outs = << >> /\ conv = None

exceptHeap == <<shapeVars, flagVars, applyVars, metaVars, outVars>>
exceptDyn == <<shapeVars, flagVars, applyVars, heapVars, metaVars, outVars>>

\* MakeNode of a leaf: Node(op, shape)
NewLeaf(op, shape) ==
    /\ Len(nodes) < MaxHeap
    /\ LET d == enableDynamicShape(dynEnabled, dynEnv, FLAGS_ltc_enable_dynamic_shapes)
           n == NodeOfShape(op, shape, 1, kHashSeed, d.ret)
       IN /\ nodes' = Append(nodes, n)
          /\ built' = Append(built, n)
          /\ dynEnabled' = d.enabled
    /\ UNCHANGED <<dynEnv, FLAGS_ltc_enable_dynamic_shapes, hashRead>>
    /\ UNCHANGED exceptHeap

\* MakeNode over one operand: Node(op, operands, shapes)
NewNode(op, operand, shapes) ==
    /\ Len(nodes) < MaxHeap
    /\ operand \in 1..Len(nodes)
    /\ LET n == NodeOfOperands(nodes, op, <<Value(operand, 0)>>, shapes, 1, kHashSeed)
       IN /\ nodes' = Append(nodes, n)
          /\ built' = Append(built, n)
    /\ UNCHANGED dynVars
    /\ UNCHANGED exceptHeap

----------------------------------------------------------------------------
(* Node::hash() under the dynamic-shape flag *)

SetDynEnv(v) ==
    /\ dynEnv' = v
    /\ UNCHANGED <<FLAGS_ltc_enable_dynamic_shapes, dynEnabled, hashRead>>
    /\ UNCHANGED exceptDyn

SetDynFlag(v) ==
    /\ FLAGS_ltc_enable_dynamic_shapes' = v
    /\ UNCHANGED <<dynEnv, dynEnabled, hashRead>>
    /\ UNCHANGED exceptDyn

HashCall(n) ==
    /\ n \in 1..Len(nodes)
    /\ LET d == enableDynamicShape(dynEnabled, dynEnv, FLAGS_ltc_enable_dynamic_shapes)
       IN /\ dynEnabled' = d.enabled
          /\ hashRead' = Some([node |-> n, dynamic |-> d.ret,
                               ret |-> NodeHash(nodes[n], d.ret)])
    /\ UNCHANGED <<dynEnv, FLAGS_ltc_enable_dynamic_shapes>>
    /\ UNCHANGED exceptDyn

NextHash ==
    \/ \E op \in OpKinds, shape \in LeafShapes : NewLeaf(op, shape)
    \/ \E op \in OpKinds, n \in 1..MaxHeap, shapes \in DeclaredShapes : NewNode(op, n, shapes)
    \/ \E v \in BOOLEAN : SetDynEnv(v)
    \/ \E v \in BOOLEAN : SetDynFlag(v)
    \/ \E n \in 1..MaxHeap : HashCall(n)

----------------------------------------------------------------------------
(* Node::SetUserMetadata *)

SetUserMetadataCall(n, user_meta) ==
    /\ n \in 1..Len(nodes)
    /\ Len(metaLog) < MaxCalls
    /\ LET r == SetUserMetadata(nodes[n], user_meta)
       IN /\ nodes' = [nodes EXCEPT ![n] = r.node]
          /\ metaLog' = Append(metaLog, [node |-> n, arg |-> user_meta, ret |-> r.ret])
    /\ UNCHANGED <<built, shapeVars, flagVars, applyVars, dynVars, outVars>>

NextMeta ==
    \/ \E op \in OpKinds, shape \in LeafShapes : NewLeaf(op, shape)
    \/ \E op \in OpKinds, n \in 1..MaxHeap, shapes \in DeclaredShapes : NewNode(op, n, shapes)
    \/ \E n \in 1..MaxHeap, m \in {0} \cup UserMetaObjects : SetUserMetadataCall(n, m)

----------------------------------------------------------------------------
(* Output and Value *)

OutputIndices == {0, 1}

\* Output(node, index)
MakeOutput(n, index) ==
    /\ n \in 1..Len(nodes)
    /\ Len(outs) < MaxOutputs
    /\ outs' = Append(outs, Output(n, index))
    /\ conv' = None
    /\ UNCHANGED <<value, shapeVars, flagVars, applyVars, heapVars, dynVars, metaVars>>

\* Value(node, index) converted by operator Output()
ValueToOutput(n, index) ==
    /\ n \in 1..Len(nodes)
    /\ Len(outs) < MaxOutputs
    /\ LET v == Value(n, index)
       IN /\ value' = Some(v)
          /\ outs' = Append(outs, ValueAsOutput(v))
          /\ conv' = Some(ValueAsOutput(v))
    /\ UNCHANGED <<shapeVars, flagVars, applyVars, heapVars, dynVars, metaVars>>

NextOutput ==
    \/ \E op \in OpKinds, shape \in LeafShapes : NewLeaf(op, shape)
    \/ \E op \in OpKinds, n \in 1..MaxHeap, shapes \in DeclaredShapes : NewNode(op, n, shapes)
    \/ \E n \in 1..MaxHeap, i \in OutputIndices : MakeOutput(n, i)
    \/ \E n \in 1..MaxHeap, i \in OutputIndices : ValueToOutput(n, i)

----------------------------------------------------------------------------
(* Two graphs built side by side: the same operators over the same          *)
(* structure, the shapes of the two sides differing at most in their sizes. *)
(* Pair k is nodes[2k-1] and nodes[2k].                                     *)

SampleSizes == {<< >>, <<2>>, <<3>>, <<2, 3>>}
SizePairs == {p \in SampleSizes \X SampleSizes : Len(p[1]) = Len(p[2])}
DeclaredPairs ==
    { << << >>, << >> >>,
      << <<Shape(6, <<2>>)>>, <<Shape(6, <<2>>)>> >>,
      << <<Shape(6, <<2>>)>>, <<Shape(6, <<3>>)>> >> }

Repeat(x, k) == [i \in 1..k |-> x]

LeafPair(op, scalar_type, sizes) ==
    /\ nodes = << >>
    /\ LET d == enableDynamicShape(dynEnabled, dynEnv, FLAGS_ltc_enable_dynamic_shapes)
           x == NodeOfShape(op, Shape(scalar_type, sizes[1]), 1, kHashSeed, d.ret)
           y == NodeOfShape(op, Shape(scalar_type, sizes[2]), 1, kHashSeed, d.ret)
       IN /\ nodes' = <<x, y>>
          /\ built' = <<x, y>>
          /\ dynEnabled' = d.enabled
    /\ UNCHANGED <<dynEnv, FLAGS_ltc_enable_dynamic_shapes, hashRead>>
    /\ UNCHANGED exceptHeap

WrapPair(op, k, declared) ==
    /\ nodes # << >>
    /\ Len(nodes) < 2 * MaxPairs
    /\ LET n == Len(nodes)
           x == NodeOfOperands(nodes, op, Repeat(Value(n - 1, 0), k), declared[1], 1, kHashSeed)
           y == NodeOfOperands(nodes, op, Repeat(Value(n, 0), k), declared[2], 1, kHashSeed)
       IN /\ nodes' = nodes \o <<x, y>>
          /\ built' = built \o <<x, y>>
    /\ UNCHANGED dynVars
    /\ UNCHANGED exceptHeap

NextGraph ==
    \/ \E op \in OpKinds, t \in ScalarTypes, p \in SizePairs : LeafPair(op, t, p)
    \/ \E op \in OpKinds, k \in {1, 2}, d \in DeclaredPairs : WrapPair(op, k, d)

----------------------------------------------------------------------------
(* Specifications *)

Init ==
    /\ ShapeStart /\ FlagStart /\ ApplyStart
    /\ HeapStart /\ DynStart /\ MetaStart /\ OutStart

Next ==
    \/ NextShape \/ NextFlag \/ NextApply
    \/ NextHash \/ NextMeta \/ NextOutput \/ NextGraph

Spec == Init /\ [][Next]_vars

Quiet ==
    /\ ShapeStart /\ FlagOff /\ ApplyStart
    /\ HeapStart /\ DynOff /\ MetaStart /\ OutStart

InitFlag ==
    /\ ShapeStart /\ FlagStart /\ ApplyStart
    /\ HeapStart /\ DynOff /\ MetaStart /\ OutStart

InitHash ==
    /\ ShapeStart /\ FlagOff /\ ApplyStart
    /\ HeapStart /\ DynStart /\ MetaStart /\ OutStart

\* One component at a time, the others at rest.
SpecShape == Quiet /\ [][NextShape]_vars
SpecFlag == InitFlag /\ [][NextFlag]_vars
SpecApply == Quiet /\ [][NextApply]_vars
SpecHash == InitHash /\ [][NextHash]_vars
SpecMeta == Quiet /\ [][NextMeta]_vars
SpecOutput == Quiet /\ [][NextOutput]_vars
SpecGraph == Quiet /\ [][NextGraph]_vars

----------------------------------------------------------------------------
(* Properties *)

ToSet(seq) == {seq[i] : i \in 1..Len(seq)}
Largest(S) == CHOOSE m \in S : \A x \in S : x <= m

\* C1: whatever Node::hash() returned is hash_with_sizes() of its node when
\* enableDynamicShape() was off during the call and hash_without_sizes() of
\* its node when it was on, and nothing else.
C1_HashFollowsFlag ==
    \A r \in ToSet(hashRead) :
        /\ ~r.dynamic => r.ret = HashWithSizes(nodes[r.node])
        /\ r.dynamic => r.ret = HashWithoutSizes(nodes[r.node])

C1_ReadWithFlagOn ==
    \E r \in ToSet(hashRead) :
        /\ r.dynamic
        /\ HashWithSizes(nodes[r.node]) # HashWithoutSizes(nodes[r.node])

PairX(k) == nodes[2 * k - 1]
PairY(k) == nodes[2 * k]
Pairs == 1..(Len(nodes) \div 2)

SameRankAndType(s, t) ==
    /\ Len(s) = Len(t)
    /\ \A i \in 1..Len(s) :
          s[i].scalar_type = t[i].scalar_type /\ Len(s[i].sizes) = Len(t[i].sizes)

\* the shapes of the two nodes differ, and only in their sizes
Resized(x, y) == SameRankAndType(x.shapes, y.shapes) /\ x.shapes # y.shapes

C3_EqualityIgnoresSymbolic ==
    \A s \in ToSet(a), t \in ToSet(b) :
        /\ ShapeEq(s, t) <=>
              /\ s.scalar_type = t.scalar_type
              /\ Len(s.sizes) = Len(t.sizes)
              /\ \A i \in 1..Len(s.sizes) : s.sizes[i] = t.sizes[i]
        /\ call.op = "with_symbolic_dims" => ShapeEq(t, call.recv[1])

C3_SymbolicDiffers ==
    /\ call.op = "with_symbolic_dims"
    /\ b # None
    /\ b[1].is_symbolic # call.recv[1].is_symbolic
    /\ b[1].is_symbolic # None
    /\ call.recv[1].is_symbolic # None

\* C4: with_symbolic_dims(d) returns a Shape with the receiver's scalar type
\* and sizes and with is_symbolic = d, and leaves the receiver as it was.
C4_CopyWithMutation ==
    call.op = "with_symbolic_dims" =>
        /\ b[1].scalar_type = call.recv[1].scalar_type
        /\ b[1].sizes = call.recv[1].sizes
        /\ b[1].is_symbolic = call.arg
        /\ a = call.recv

C4_ClearedAfterChain ==
    /\ call.op = "with_symbolic_dims"
    /\ call.arg = None
    /\ call.recv[1].is_symbolic # None
    /\ b[1].is_symbolic = None

\* C5: every Shape has, when is_symbolic is present, as many symbolic-dims
\* entries as sizes.
C5_SymbolicDimsMatchSizes ==
    \A s \in ToSet(a) \cup ToSet(b) :
        s.is_symbolic # None => Len(s.is_symbolic[1]) = Len(s.sizes)

\* the same Shape, read by get_symbolic_shape, fails its assertion
C5_AssertionOnRead == \E r \in ToSet(sym) : r.status = "assert"

PreviousCalls(k) == {j \in 1..(k - 1) : metaLog[j].node = metaLog[k].node}
CallsOn(n) == {j \in 1..Len(metaLog) : metaLog[j].node = n}

\* C6: each SetUserMetadata call returns what the preceding call on the node
\* installed (null for the first), user_metadata() is what the last call
\* passed, and nothing else of any node differs from what its constructor
\* set.
C6_ReplaceAndReturnPrevious ==
    /\ \A k \in 1..Len(metaLog) :
          metaLog[k].ret = IF PreviousCalls(k) = {} THEN 0
                           ELSE metaLog[Largest(PreviousCalls(k))].arg
    /\ \A n \in 1..Len(nodes) :
          /\ UserMetadata(nodes[n]) = IF CallsOn(n) = {} THEN 0
                                      ELSE metaLog[Largest(CallsOn(n))].arg
          /\ [nodes[n] EXCEPT !.user_metadata = 0] = built[n]

C6_SecondCallReturnsFirst ==
    /\ Len(metaLog) = 2
    /\ metaLog[1].node = metaLog[2].node
    /\ metaLog[1].arg # 0
    /\ metaLog[2].arg # metaLog[1].arg
    /\ metaLog[2].ret = metaLog[1].arg

\* C7 as stated: every read of the symbolic-shape flag returns what the
\* first read returned.
C7_FirstReadWins == \A i \in 1..Len(reads) : reads[i].ret = reads[1].ret

\* C7 as amended: only the environment variable is resolved at the first
\* read and cached; a read returns (the variable was set at the first read)
\* or (the explicit flag is set now).  So a later read returns what the
\* first returned whatever happens to the environment, as long as the
\* explicit flag has the value it had at the first read.
C7_EnvCachedFlagLive ==
    \A i \in 1..Len(reads) :
        /\ reads[i].ret = (reads[1].env \/ reads[i].flag)
        /\ reads[i].flag = reads[1].flag => reads[i].ret = reads[1].ret

C7_EnvChangedBetweenReads ==
    /\ Len(reads) >= 2
    /\ reads[2].env # reads[1].env
    /\ reads[2].flag = reads[1].flag
    /\ reads[2].ret = reads[1].ret

\* C8: two Outputs are equal iff they hold the same Node pointer and the same
\* index, also when the two nodes are equal in every field; equal Outputs
\* have equal Output::Hasher values; and the Output a Value converts to has
\* the Value's node and index.
C8_OutputIdentity ==
    /\ \A i, j \in 1..Len(outs) :
          /\ OutputEq(outs[i], outs[j]) <=>
                (outs[i].node = outs[j].node /\ outs[i].index = outs[j].index)
          /\ OutputEq(outs[i], outs[j]) => OutputHasher(outs[i]) = OutputHasher(outs[j])
          /\ outs[i].node # outs[j].node => ~OutputEq(outs[i], outs[j])
    /\ \A o \in ToSet(conv) :
          o.node = value[1].node /\ o.index = value[1].index

C8_TwinNodes ==
    /\ Len(outs) = 2
    /\ outs[1].node # outs[2].node
    /\ outs[1].index = 0 /\ outs[2].index = 0
    /\ nodes[outs[1].node] = nodes[outs[2].node]
    /\ conv # None

InferenceAbsent == applied.inferred /\ applied.res = Some(None)
InferencePresent == applied.inferred /\ applied.res # Some(None)

SizesAndTypesKept ==
    /\ Len(result_shapes) = Len(applied.before)
    /\ \A i \in 1..Len(result_shapes) :
          /\ result_shapes[i].scalar_type = applied.before[i].scalar_type
          /\ result_shapes[i].sizes = applied.before[i].sizes

\* C9: when the inference call returns no result, applySymbolicShapesOnLT
\* completes normally and every result shape keeps its scalar type and
\* sizes and carries no symbolic-dims metadata put there by the call.
C9_AbsentResultLeavesConcrete ==
    InferenceAbsent =>
        /\ applied.status = "ok"
        /\ SizesAndTypesKept
        /\ \A i \in 1..Len(result_shapes) :
              result_shapes[i].is_symbolic \in {None, applied.before[i].is_symbolic}

\* C10: when the inference call returns a result, a count different from the
\* number of result shapes ends in the assertion with no result shape
\* modified; with equal counts the call completes, entry i's breakdown
\* becomes result shape i's symbolic-dims metadata, an entry without a
\* breakdown leaves shape i as it was, and no scalar type or size changes.
C10_CountCheckedThenApplied ==
    InferencePresent =>
        LET entries == applied.res[1][1]
        IN IF Len(entries) # Len(applied.before)
           THEN applied.status = "assert" /\ result_shapes = applied.before
           ELSE /\ applied.status = "ok"
                /\ SizesAndTypesKept
                /\ \A i \in 1..Len(result_shapes) :
                      result_shapes[i].is_symbolic =
                          IF entries[i] # None THEN entries[i]
                          ELSE applied.before[i].is_symbolic

C10_MixedEntries ==
    /\ InferencePresent
    /\ applied.status = "ok"
    /\ Len(applied.before) = 2
    /\ LET entries == applied.res[1][1]
       IN /\ entries[1] = None
          /\ applied.before[1].is_symbolic # None
          /\ entries[2] # None
          /\ entries[2] # applied.before[2].is_symbolic
          /\ result_shapes[2].is_symbolic = entries[2]

====
